---- MODULE Spec2Model ----
(***************************************************************************)
(* Minesweeper with hidden treasures (src/minesweeper.py): the game model, *)
(* the controller's handlers and the two views' game-over handling, as a   *)
(* state machine.  A cell is the pair <<x, y>> (row, column); the board    *)
(* maps every cell to the record of the fields of class Cell.              *)
(***************************************************************************)
EXTENDS Integers, Sequences, FiniteSets, TLC

\* ------------------------------------------------------------------ bounds
SizeX == 2
SizeY == 3
MaxMines == 1
MaxTreasures == 1
\* the flags the player keeps on the board: in the program run after run, and
\* in one game
MaxFlags == 1
MaxPlayFlags == 2
\* the flags on the board of a game the player quits and has saved
MaxSavedFlags == 0
\* the events the canvas handles after a dialog was scheduled and before it
\* opens
MaxLate == 1
\* the handlers that wait in an event loop when a view.game_over call is made
\* inside them
MaxDepth == 2
\* the input events one root.update() call finds waiting
MaxQueued == 1
\* the test board validator: the well-formed files tried differ from a board
\* that meets every rule for the mines in at most this many values
MaxEdits == 2
\* the 8 x 8 example board: the treasure sets tried hold every set of at most
\* this many free cells (and the row-major prefixes of up to 10 free cells)
FixtureTreasures == 2

\* ------------------------------------------------------------- the board
Rows == 0..(SizeX - 1)
Cols == 0..(SizeY - 1)
Cells == Rows \X Cols

None == "None"
Now == "now"

\* Cell.__init__
Cell == [is_mine |-> FALSE, is_flagged |-> FALSE, is_revealed |-> FALSE,
         adjacent_mines |-> 0, has_treasure |-> FALSE]

\* the (dx, dy) pairs in the order of the two nested loops of get_neighbors
Offsets == << <<-1, -1>>, <<-1, 0>>, <<-1, 1>>,
              << 0, -1>>, << 0, 0>>, << 0, 1>>,
              << 1, -1>>, << 1, 0>>, << 1, 1>> >>

\* a variant of get_neighbors that forgets the diagonal neighbours
get_neighbors_orthogonal(x, y) ==
    LET keep(d) == /\ (d[1] = 0) # (d[2] = 0)
                   /\ 0 <= x + d[1] /\ x + d[1] < SizeX
                   /\ 0 <= y + d[2] /\ y + d[2] < SizeY
        ds == SelectSeq(Offsets, keep)
    IN [i \in 1..Len(ds) |-> <<x + ds[i][1], y + ds[i][2]>>]

\* GameModel.get_neighbors: the list of the cells around (x, y), in loop order
get_neighbors(x, y) ==
    LET keep(d) == /\ (d[1] # 0 \/ d[2] # 0)
                   /\ 0 <= x + d[1] /\ x + d[1] < SizeX
                   /\ 0 <= y + d[2] /\ y + d[2] < SizeY
        ds == SelectSeq(Offsets, keep)
    IN [i \in 1..Len(ds) |-> <<x + ds[i][1], y + ds[i][2]>>]

\* get_neighbors(x, y) for every cell <<x, y>> of the board
neighbors == [c \in Cells |-> get_neighbors(c[1], c[2])]

\* GameModel.count_adjacent_mines on board b
count_adjacent_mines(b, c) ==
    LET nb == neighbors[c]
    IN Cardinality({i \in 1..Len(nb) : b[nb[i]].is_mine})

\* GameModel.calculate_adjacent_mines on board b
calculate_adjacent_mines(b) ==
    [c \in Cells |-> [b[c] EXCEPT !.adjacent_mines = count_adjacent_mines(b, c)]]

\* a variant of available_cells that does not leave the mines out
available_cells_all(b) == Cells

\* GameModel.place_treasures: the cells the treasures are sampled from
available_cells(b) == {c \in Cells : ~b[c].is_mine}

\* GameModel.is_adjacent_to_treasure; tc is treasure_cells (used as a set:
\* the code only iterates it and takes its length)
is_adjacent_to_treasure(tc, c) ==
    \E t \in tc :
        LET nb == neighbors[t]
        IN \E i \in 1..Len(nb) : nb[i] = c

\* the k-element subsets of S: the possible results of random.sample(S, k)
sample(S, k) == {P \in SUBSET S : Cardinality(P) = k}

\* place_treasures, line 153: the possible samples of nt available cells on a
\* board whose mines are M (none when too few cells are available)
treasure_samples(M, nt) ==
    LET avail == available_cells([c \in Cells |->
                     [Cell EXCEPT !.is_mine = (c \in M)]])
    IN IF Cardinality(avail) >= nt THEN sample(avail, nt) ELSE {{}}

\* GameModel.__init__ without a test board: place_mines with the sample M,
\* calculate_adjacent_mines, place_treasures with the sample T
random_model(nm, nt, M, T) ==
    LET b0 == [c \in Cells |-> Cell]
        b1 == [c \in Cells |-> [b0[c] EXCEPT !.is_mine = (c \in M)]]
        b2 == calculate_adjacent_mines(b1)
        placed == Cardinality(available_cells(b2)) >= nt
        b3 == [c \in Cells |->
                 [b2[c] EXCEPT !.has_treasure = (placed /\ c \in T)]]
    IN [board |-> b3, mines |-> Cardinality(M), num_mines |-> nm,
        num_treasures |-> nt,
        treasure_cells |-> IF placed THEN T ELSE {}]

\* every GameModel that random placement of nm mines and nt treasures can build
random_models ==
    [nm \in 0..MaxMines, nt \in 0..MaxTreasures |->
        UNION {{random_model(nm, nt, M, T) : T \in treasure_samples(M, nt)} :
               M \in sample(Cells, nm)}]

\* a variant of fixed_model that takes the requested count for mines
fixed_model_requested_mines(nm, tb) ==
    LET b0 == [c \in Cells |-> Cell]
        b1 == [c \in Cells |->
                 IF tb[c] = 1 THEN [b0[c] EXCEPT !.is_mine = TRUE]
                 ELSE IF tb[c] = 2 THEN [b0[c] EXCEPT !.has_treasure = TRUE]
                 ELSE b0[c]]
        tc == {c \in Cells : tb[c] = 2}
    IN [board |-> calculate_adjacent_mines(b1),
        mines |-> nm, num_mines |-> nm,
        num_treasures |-> Cardinality(tc), treasure_cells |-> tc]

\* GameModel.__init__ with a test board: initialize_board_from_test_board
fixed_model(nm, tb) ==
    LET b0 == [c \in Cells |-> Cell]
        b1 == [c \in Cells |->
                 IF tb[c] = 1 THEN [b0[c] EXCEPT !.is_mine = TRUE]
                 ELSE IF tb[c] = 2 THEN [b0[c] EXCEPT !.has_treasure = TRUE]
                 ELSE b0[c]]
        tc == {c \in Cells : tb[c] = 2}
    IN [board |-> calculate_adjacent_mines(b1),
        mines |-> Cardinality({c \in Cells : tb[c] = 1}), num_mines |-> nm,
        num_treasures |-> Cardinality(tc), treasure_cells |-> tc]

\* ------------------------------------------------------------- the state
VARIABLES
    board,            \* GameModel.board: cell -> Cell fields
    mines,            \* GameModel.mines: the mines counted while placing
    num_mines,        \* GameModel.num_mines
    num_treasures,    \* GameModel.num_treasures
    treasure_cells,   \* GameModel.treasure_cells
    test_board,       \* GameModel.test_board (all 0 when there is none)
    is_test_mode,     \* GameModel.is_test_mode
    start_time,       \* GameModel.start_time: None or the time of the first click
    flag_count,       \* GameModel.flag_count
    clicked_count,    \* GameModel.clicked_count
    view,             \* which view main() built: "GUI" or "Text"
    pc,               \* "playing"; "prompt": TextView.game_over waits for
                      \* the answer to "Play again?";
                      \* "quitting": root.quit() was called while handlers of
                      \* the GUI wait; "exited": the program has ended
    pending,          \* GUIView: the show_game_over_message calls scheduled by root.after
    game_over_calls,  \* the arguments of the view.game_over calls made on
                      \* this GameModel object
    late,             \* GUIView: the events handled since game_over scheduled a dialog
    last_op,          \* the handler that ran last and the path it took
    fill,             \* reveal_empty_cells while it runs: its queue, and the
                      \* cells it has enqueued and dequeued so far
    stack,            \* GUIView: the handlers that wait in an event loop of
                      \* their own (root.update() or a dialog), innermost last
    sav               \* the file <level>.sav: the GameModel pickled in it,
                      \* or NoSave when there is no such file

modelVars == <<board, mines, num_mines, num_treasures, treasure_cells,
               test_board, is_test_mode, start_time, flag_count, clicked_count>>
vars == <<board, mines, num_mines, num_treasures, treasure_cells, test_board,
          is_test_mode, start_time, flag_count, clicked_count, view, pc,
          pending, game_over_calls, late, last_op, fill, stack, sav>>

\* no reveal_empty_cells call is running
NoFill == [active |-> FALSE, queue |-> <<>>, enqueued |-> <<>>,
           dequeued |-> <<>>]

\* os.path.exists(saved_game_file) is False: there is no <level>.sav
NoSave == [board |-> <<>>]

\* the step o that ran last, on path p
Op(o, p) == [op |-> o, path |-> p]

\* the matrix with 1 at the cells M, 2 at the cells T and 0 elsewhere
matrix_of(M, T) ==
    [c \in Cells |-> IF c \in M THEN 1 ELSE IF c \in T THEN 2 ELSE 0]

\* the matrices a test board is drawn from: one mine and one treasure (the
\* validator's board always has both), apart, side by side and corner to
\* corner
TestBoards ==
    {matrix_of({<<0, 0>>}, {<<1, 0>>}), matrix_of({<<0, 1>>}, {<<1, 1>>}),
     matrix_of({<<1, 2>>}, {<<1, 1>>}), matrix_of({<<0, 0>>}, {<<1, 2>>}),
     matrix_of({<<0, 2>>}, {<<1, 1>>})}

NoTestBoard == [c \in Cells |-> 0]

\* a variant of Install that keeps the flags counted in the game before
Install_keeping_flag_count(m) ==
    /\ board' = m.board
    /\ mines' = m.mines
    /\ num_mines' = m.num_mines
    /\ num_treasures' = m.num_treasures
    /\ treasure_cells' = m.treasure_cells
    /\ start_time' = None
    /\ flag_count' = flag_count
    /\ clicked_count' = 0

\* the fields a freshly constructed GameModel m gives the state
Install(m) ==
    /\ board' = m.board
    /\ mines' = m.mines
    /\ num_mines' = m.num_mines
    /\ num_treasures' = m.num_treasures
    /\ treasure_cells' = m.treasure_cells
    /\ start_time' = None
    /\ flag_count' = 0
    /\ clicked_count' = 0

\* a GameModel as save_game pickles it: the freshly constructed m with the
\* cells R revealed by clicks that each revealed one cell
saved_game(m, R) ==
    [board |-> [c \in Cells |->
                  [m.board[c] EXCEPT !.is_revealed = (c \in R)]],
     mines |-> m.mines, num_mines |-> m.num_mines,
     num_treasures |-> m.num_treasures, treasure_cells |-> m.treasure_cells,
     start_time |-> IF R = {} THEN None ELSE Now, flag_count |-> 0,
     clicked_count |-> Cardinality(R)]

\* main(), line 847: the <level>.sav files an earlier run of the program may
\* have left when this one starts: a game quit after a click on a numbered
\* cell
StaleSaves ==
    {saved_game(random_model(1, 1, {<<0, 2>>}, {<<1, 0>>}), {<<0, 1>>})}

\* main(): <level>.sav as it is found; the GameModel in it ("c", lines
\* 849-851), or a new one from a level's parameters or from a validated test
\* board; then the view
Init ==
    /\ view \in {"GUI", "Text"}
    /\ pc = "playing"
    /\ pending = <<>>
    /\ late = 0
    /\ game_over_calls = <<>>
    /\ fill = NoFill
    /\ stack = <<>>
    /\ sav \in {NoSave} \cup StaleSaves
    /\ \/ /\ is_test_mode = FALSE
          /\ test_board = NoTestBoard
          /\ \E nm \in 1..MaxMines, nt \in 1..MaxTreasures :
               \E m \in random_models[nm, nt] :
                    /\ board = m.board
                    /\ mines = m.mines
                    /\ num_mines = m.num_mines
                    /\ num_treasures = m.num_treasures
                    /\ treasure_cells = m.treasure_cells
          /\ start_time = None
          /\ flag_count = 0
          /\ clicked_count = 0
          /\ last_op = Op("new", "")
       \/ /\ is_test_mode = TRUE
          /\ test_board \in TestBoards
          /\ LET m == fixed_model(Cardinality({c \in Cells : test_board[c] = 1}),
                                  test_board)
             IN /\ board = m.board
                /\ mines = m.mines
                /\ num_mines = m.num_mines
                /\ num_treasures = m.num_treasures
                /\ treasure_cells = m.treasure_cells
          /\ start_time = None
          /\ flag_count = 0
          /\ clicked_count = 0
          /\ last_op = Op("new", "")
       \/ /\ sav # NoSave
          /\ is_test_mode = FALSE
          /\ test_board = NoTestBoard
          /\ board = sav.board
          /\ mines = sav.mines
          /\ num_mines = sav.num_mines
          /\ num_treasures = sav.num_treasures
          /\ treasure_cells = sav.treasure_cells
          /\ start_time = sav.start_time
          /\ flag_count = sav.flag_count
          /\ clicked_count = sav.clicked_count
          /\ last_op = Op("main", "continue")

\* ------------------------------------------------------- the reveal engine
\* a variant of auto_reveals without the is_revealed test of line 272
auto_reveals_revealed_again(b, tc, n) ==
    /\ ~b[n].is_mine /\ ~b[n].is_flagged
    /\ ~b[n].has_treasure
    /\ ~is_adjacent_to_treasure(tc, n)

\* reveal_empty_cells, lines 272-276: the neighbour n is revealed by the fill
auto_reveals(b, tc, n) ==
    /\ ~b[n].is_revealed /\ ~b[n].is_mine /\ ~b[n].is_flagged
    /\ ~b[n].has_treasure
    /\ ~is_adjacent_to_treasure(tc, n)

\* reveal_empty_cells, lines 271-282: the loop over the neighbours nb[i..]
RECURSIVE scan_neighbors(_, _, _, _, _, _)
scan_neighbors(nb, i, queue, b, cc, tc) ==
    IF i > Len(nb) THEN [queue |-> queue, board |-> b, clicked_count |-> cc]
    ELSE IF auto_reveals(b, tc, nb[i])
         THEN scan_neighbors(nb, i + 1,
                  IF b[nb[i]].adjacent_mines = 0 THEN Append(queue, nb[i])
                  ELSE queue,
                  [b EXCEPT ![nb[i]].is_revealed = TRUE], cc + 1, tc)
         ELSE scan_neighbors(nb, i + 1, queue, b, cc, tc)

\* a variant of flood that scans the neighbours of the starting cell only
flood_first_cell_only(queue, b, cc, tc) ==
    LET r == scan_neighbors(neighbors[Head(queue)], 1, Tail(queue), b, cc, tc)
    IN [board |-> r.board, clicked_count |-> r.clicked_count]

\* reveal_empty_cells, lines 267-282: the loop over the queue
RECURSIVE flood(_, _, _, _)
flood(queue, b, cc, tc) ==
    IF queue = <<>> THEN [board |-> b, clicked_count |-> cc]
    ELSE LET current == Head(queue)
             r == scan_neighbors(neighbors[current], 1, Tail(queue), b, cc, tc)
         IN flood(r.queue, r.board, r.clicked_count, tc)

\* a variant of total_safe_cells that forgets the treasures
total_safe_cells_no_treasures == SizeX * SizeY - mines

\* total_safe_cells of on_click, reveal_empty_cells and TextView.draw_board
total_safe_cells == SizeX * SizeY - mines - num_treasures

\* the win test of lines 229-230 and 284-285 on the count cc: the
\* view.game_over calls it makes
win_check(cc) == IF cc = total_safe_cells THEN <<TRUE>> ELSE <<>>

\* a variant of reveal_empty_cells that does not count the cells it reveals
reveal_empty_cells_uncounted(b, cc, c) ==
    LET r == flood(<<c>>, b, cc, treasure_cells)
    IN [board |-> r.board, clicked_count |-> cc, signals |-> win_check(cc)]

\* GameController.reveal_empty_cells(cell) on board b with clicked_count cc
reveal_empty_cells(b, cc, c) ==
    LET r == flood(<<c>>, b, cc, treasure_cells)
    IN [board |-> r.board, clicked_count |-> r.clicked_count,
        signals |-> win_check(r.clicked_count)]

\* a variant of rejects that only looks at the flag
rejects_flagged_only(c) == board[c].is_flagged

\* on_click, line 209: the call returns without revealing
rejects(c) == board[c].is_revealed \/ board[c].is_flagged

\* on_click, the tests of lines 213, 218 and 223: the branch taken for cell c
branch(c) ==
    IF board[c].is_mine THEN "mine"
    ELSE IF board[c].has_treasure THEN "treasure"
    ELSE IF board[c].adjacent_mines = 0 THEN "flood"
    ELSE "number"

\* TextView.game_over, lines 726-729: every mine and treasure is revealed
reveal_mines_and_treasures(b) ==
    [c \in Cells |->
        IF b[c].is_mine \/ b[c].has_treasure
        THEN [b[c] EXCEPT !.is_revealed = TRUE] ELSE b[c]]

\* GameController.restart_game, lines 297-313: the GameModels it can build
restart_models ==
    IF is_test_mode THEN {fixed_model(num_mines, test_board)}
    ELSE random_models[num_mines, num_treasures]

\* GameController.save_game with is_test_mode False: the GameModel that
\* pickle.dump writes to <level>.sav
save_game ==
    [board |-> board, mines |-> mines, num_mines |-> num_mines,
     num_treasures |-> num_treasures, treasure_cells |-> treasure_cells,
     start_time |-> start_time, flag_count |-> flag_count,
     clicked_count |-> clicked_count]

\* GameController.clear_saved_game: <level>.sav is removed unless the game
\* is in test mode
clear_saved_game == IF is_test_mode THEN sav ELSE NoSave

\* ------------------------------------------------- the GUI's event loops
\* a handler of the GUI that waits in an event loop of its own: op is the
\* handler; at is where it waits ("update": root.update() of
\* GUIView.game_over, line 494; "askyesno": the dialog of
\* show_game_over_message, line 508; "showinfo": the message of on_quit, line
\* 580); won is the argument of the game_over or show_game_over_message call;
\* then is what on_click does when game_over returns to it ("win_test": the
\* call came from reveal_empty_cells and lines 228-230 follow; "return");
\* path is the branch on_click took; made are the view.game_over calls this
\* on_click call has made so far; handled is the number of input events its
\* root.update() has passed to their handlers
Frame(o, a, w, t, p, m) ==
    [op |-> o, at |-> a, won |-> w, then |-> t, path |-> p, made |-> m,
     handled |-> 0]

\* the handler that waits innermost
Top == stack[Len(stack)]

\* the handlers that wait below the innermost one
Front(s) == SubSeq(s, 1, Len(s) - 1)

\* the event loop that runs when no handler does: mainloop, or the one the
\* innermost waiting handler has started
event_loop == IF stack = <<>> THEN "mainloop" ELSE Top.at

\* the GUI is up: mainloop runs, or root.quit() was called inside a handler
\* and mainloop ends when control is back in it
Running == view = "GUI" /\ pc \in {"playing", "quitting"}

\* an event loop that takes the canvas' and the menu's events is running:
\* mainloop, or root.update() inside GUIView.game_over (a dialog keeps the
\* input to itself); a root.update() call finds at most MaxQueued input events
\* waiting
Dispatches ==
    /\ Running
    /\ event_loop \in {"mainloop", "update"}
    /\ IF event_loop = "update" THEN Top.handled < MaxQueued ELSE TRUE

\* the waiting handlers when the running event loop has passed an input event
\* to its handler
counted ==
    IF stack = <<>> THEN stack
    ELSE [stack EXCEPT ![Len(stack)].handled = @ + 1]

\* the views' handlers can be called: by the GUI's event loops, or by
\* TextView.draw_board at its prompt
Handles == IF view = "GUI" THEN Dispatches ELSE pc = "playing"

\* GUIView.game_over shows the dialog one second after the game ended: the
\* canvas handles at most MaxLate more events before it
BeforeDialog == pending = <<>> \/ late < MaxLate

\* GUIView.mainloop, line 589: a handler has returned and the handlers s still
\* wait, p are the dialogs scheduled; quit tells that root.quit() has been
\* called.  mainloop ends, and main with it, once no handler waits; the event
\* loops of the waiting handlers do not look at quit
mainloop(s, quit, p) ==
    /\ stack' = s
    /\ IF s = <<>> /\ quit
       THEN pc' = "exited" /\ pending' = <<>> /\ late' = 0
       ELSE /\ pc' = IF quit THEN "quitting" ELSE pc
            /\ pending' = p
            /\ late' = IF p = <<>> THEN 0 ELSE late

\* self.view.game_over(won), called by on_click on path p with the board b.
\* GUIView.game_over, lines 478-494: the saved game is removed, the canvas is
\* recoloured and the call waits in root.update().  TextView.game_over, lines
\* 725-735: the saved game is removed, every mine and treasure is revealed,
\* the board is printed and the call waits for the answer to "Play again?"; it
\* never returns to its caller (it restarts into a nested draw_board loop or
\* exits)
view_game_over(won, t, p, b) ==
    /\ game_over_calls' = Append(game_over_calls, won)
    /\ sav' = clear_saved_game
    /\ IF view = "GUI"
       THEN /\ Len(stack) < MaxDepth
            /\ board' = b
            /\ stack' = Append(counted, Frame("on_click", "update", won, t, p,
                                              <<won>>))
            /\ pc' = pc
       ELSE /\ board' = reveal_mines_and_treasures(b)
            /\ stack' = stack
            /\ pc' = "prompt"

\* on_click makes no view.game_over call and leaves the board b
no_game_over(b) ==
    /\ board' = b
    /\ stack' = counted
    /\ UNCHANGED <<game_over_calls, sav, pc>>

\* GameController.on_click(x, y), c = <<x, y>>: lines 205-230, up to the
\* return or to the wait of its first view.game_over call
on_click(c) ==
    /\ start_time' = IF start_time = None THEN Now ELSE start_time
    /\ IF rejects(c)
       THEN /\ clicked_count' = clicked_count
            /\ no_game_over(board)
            /\ last_op' = Op("on_click", "rejected")
       ELSE LET b1 == [board EXCEPT ![c].is_revealed = TRUE]
                cc1 == clicked_count + 1
                br == branch(c)
                r == reveal_empty_cells(b1, cc1, c)
            IN /\ last_op' = Op("on_click", br)
               /\ IF br = "mine" \/ br = "treasure"
                  THEN /\ clicked_count' = cc1
                       /\ view_game_over(br = "treasure", "return", br, b1)
                  ELSE IF br = "flood"
                  THEN /\ clicked_count' = r.clicked_count
                       /\ IF r.signals # <<>>
                          THEN view_game_over(TRUE, "win_test", br, r.board)
                          ELSE no_game_over(r.board)
                  ELSE /\ clicked_count' = cc1
                       /\ IF win_check(cc1) # <<>>
                          THEN view_game_over(TRUE, "return", br, b1)
                          ELSE no_game_over(b1)
    /\ UNCHANGED <<mines, num_mines, num_treasures, treasure_cells, test_board,
                   is_test_mode, flag_count, view, fill>>

\* a variant of right_click that sets the flag without counting it back down
right_click_no_decrement(b, fc, c) ==
    IF b[c].is_revealed
    THEN [board |-> b, flag_count |-> fc, path |-> "rejected"]
    ELSE IF ~b[c].is_flagged
    THEN [board |-> [b EXCEPT ![c].is_flagged = TRUE], flag_count |-> fc + 1,
          path |-> "flagged"]
    ELSE [board |-> [b EXCEPT ![c].is_flagged = FALSE], flag_count |-> fc,
          path |-> "unflagged"]

\* a variant of right_click without the is_revealed test of line 243
right_click_no_revealed_test(b, fc, c) ==
    IF ~b[c].is_flagged
    THEN [board |-> [b EXCEPT ![c].is_flagged = TRUE], flag_count |-> fc + 1,
          path |-> "flagged"]
    ELSE [board |-> [b EXCEPT ![c].is_flagged = FALSE], flag_count |-> fc - 1,
          path |-> "unflagged"]

\* a variant of right_click that sets no more flags than there are mines
right_click_up_to_mines(b, fc, c) ==
    IF b[c].is_revealed \/ (~b[c].is_flagged /\ fc >= mines)
    THEN [board |-> b, flag_count |-> fc, path |-> "rejected"]
    ELSE IF ~b[c].is_flagged
    THEN [board |-> [b EXCEPT ![c].is_flagged = TRUE], flag_count |-> fc + 1,
          path |-> "flagged"]
    ELSE [board |-> [b EXCEPT ![c].is_flagged = FALSE], flag_count |-> fc - 1,
          path |-> "unflagged"]

\* on_right_click, lines 242-250, on board b with flag_count fc: the board, the
\* count and the return taken
right_click(b, fc, c) ==
    IF b[c].is_revealed
    THEN [board |-> b, flag_count |-> fc, path |-> "rejected"]
    ELSE IF ~b[c].is_flagged
    THEN [board |-> [b EXCEPT ![c].is_flagged = TRUE], flag_count |-> fc + 1,
          path |-> "flagged"]
    ELSE [board |-> [b EXCEPT ![c].is_flagged = FALSE], flag_count |-> fc - 1,
          path |-> "unflagged"]

\* GameController.on_right_click(x, y), c = <<x, y>>
on_right_click(c) ==
    /\ LET r == right_click(board, flag_count, c)
       IN /\ board' = r.board
          /\ flag_count' = r.flag_count
          /\ last_op' = Op("on_right_click", r.path)
    /\ UNCHANGED <<mines, num_mines, num_treasures, treasure_cells, test_board,
                   is_test_mode, start_time, clicked_count, view, pc, pending,
                   game_over_calls, fill, sav>>
    /\ stack' = counted

\* the player quits a game that is saved with at most MaxSavedFlags flags on
\* the board
MayQuit == is_test_mode \/ flag_count <= MaxSavedFlags

\* the player keeps at most k flags on the board
MayRightClick(c, k) == board[c].is_flagged \/ board[c].is_revealed
                          \/ flag_count < k

\* GameController.restart_game: the saved game is removed and a new GameModel
\* is built from the same parameters
restart_game ==
    /\ \E m \in restart_models : Install(m)
    /\ game_over_calls' = <<>>
    /\ sav' = clear_saved_game
    /\ last_op' = Op("restart_game", "")
    /\ UNCHANGED <<test_board, is_test_mode, view, fill>>

\* an event loop of the GUI has called a handler of the canvas: the event is
\* counted when a dialog is scheduled
dispatched ==
    /\ late' = IF pending = <<>> THEN 0 ELSE late + 1
    /\ pending' = pending

\* GUIView.on_canvas_click with the click inside the canvas
on_canvas_click(c) ==
    /\ Dispatches /\ BeforeDialog
    /\ on_click(c)
    /\ dispatched

\* GUIView.on_canvas_right_click with the click inside the canvas
on_canvas_right_click(c) ==
    /\ Dispatches /\ BeforeDialog
    /\ on_right_click(c)
    /\ late' = IF pending = <<>> THEN 0 ELSE late + 1

\* GUIView.game_over, lines 494-495, and the rest of on_click: root.update()
\* has run the events that were waiting and the dialogs whose second had
\* passed and returns, the dialog of this call is scheduled, and game_over
\* returns to
\* on_click, which returns, or, when the call came from reveal_empty_cells
\* (line 285), runs the win test of lines 228-230 on the GameModel the
\* controller has now and calls game_over again
GUIView_game_over_returns ==
    /\ Running /\ event_loop = "update"
    /\ IF Top.then = "win_test" /\ win_check(clicked_count) # <<>>
       THEN /\ game_over_calls' = Append(game_over_calls, TRUE)
            /\ sav' = clear_saved_game
            /\ stack' = [stack EXCEPT ![Len(stack)] =
                            Frame("on_click", "update", TRUE, "return",
                                  Top.path, Append(Top.made, TRUE))]
            /\ pending' = Append(pending, Top.won)
            /\ last_op' = Op("game_over", "win_test")
            /\ UNCHANGED <<pc, late>>
       ELSE /\ mainloop(Front(stack), pc = "quitting",
                        Append(pending, Top.won))
            /\ last_op' = Op("game_over", "return")
            /\ UNCHANGED <<game_over_calls, sav>>
    /\ UNCHANGED <<modelVars, view, fill>>

\* GUIView.show_game_over_message, lines 507-508: the timer of the oldest
\* scheduled dialog fires in an event loop and the dialog opens.  mainloop and
\* a dialog wait until the second has passed; root.update() runs the timer
\* when the second has passed by the time it looks
show_game_over_message ==
    /\ Running /\ pending # <<>>
    /\ pending' = Tail(pending)
    /\ late' = IF Tail(pending) = <<>> THEN 0 ELSE late
    /\ stack' = Append(stack, Frame("show_game_over_message", "askyesno",
                                    Head(pending), "return", "", <<>>))
    /\ last_op' = Op("show_game_over_message", "askyesno")
    /\ UNCHANGED <<modelVars, view, pc, game_over_calls, sav, fill>>

\* GUIView.show_game_over_message, lines 509-510: "yes" in the dialog opened
\* last
show_game_over_message_yes ==
    /\ Running /\ event_loop = "askyesno"
    /\ restart_game
    /\ mainloop(Front(stack), pc = "quitting", pending)

\* GUIView.show_game_over_message, lines 511-512: "no" in the dialog opened
\* last; root.quit()
show_game_over_message_no ==
    /\ Running /\ event_loop = "askyesno"
    /\ mainloop(Front(stack), TRUE, pending)
    /\ last_op' = Op("show_game_over_message", "no")
    /\ UNCHANGED <<modelVars, view, game_over_calls, sav, fill>>

\* GUIView.on_quit, the Quit command of the File menu: the game is saved and
\* root.quit() called, or, in test mode, a message is shown
on_quit ==
    /\ Dispatches /\ BeforeDialog
    /\ IF ~is_test_mode
       THEN /\ sav' = save_game
            /\ mainloop(counted, TRUE, pending)
            /\ last_op' = Op("on_quit", "saved")
       ELSE /\ stack' = Append(counted, Frame("on_quit", "showinfo", FALSE,
                                              "return", "", <<>>))
            /\ last_op' = Op("on_quit", "unavailable")
            /\ late' = IF pending = <<>> THEN 0 ELSE late + 1
            /\ UNCHANGED <<pc, pending, sav>>
    /\ UNCHANGED <<modelVars, view, game_over_calls, fill>>

\* GUIView.on_quit, line 580: the message is closed and on_quit returns
on_quit_returns ==
    /\ Running /\ event_loop = "showinfo"
    /\ mainloop(Front(stack), pc = "quitting", pending)
    /\ last_op' = Op("on_quit", "return")
    /\ UNCHANGED <<modelVars, view, game_over_calls, sav, fill>>

\* TextView.process_command "q": the game is saved and exit() called, or, in
\* test mode, a message is printed
process_command_q ==
    /\ view = "Text" /\ pc = "playing"
    /\ IF ~is_test_mode
       THEN /\ sav' = save_game
            /\ pc' = "exited"
            /\ last_op' = Op("process_command", "saved")
       ELSE /\ last_op' = Op("process_command", "unavailable")
            /\ UNCHANGED <<pc, sav>>
    /\ UNCHANGED <<modelVars, view, pending, game_over_calls, late, fill,
                   stack>>

\* main() run again while <level>.sav exists (line 847), with "c" at
\* "continue with the previous game or start again?": pickle.load gives the
\* GameModel in the file, which stays where it is, a view is chosen and
\* start_game draws the board.  TextView.draw_board runs its win test before
\* the first command (lines 614-616) and calls game_over.  ("s" and a level
\* without a file build a new GameModel: a behaviour from Init)
main_continue ==
    /\ pc = "exited" /\ sav # NoSave
    /\ mines' = sav.mines
    /\ num_mines' = sav.num_mines
    /\ num_treasures' = sav.num_treasures
    /\ treasure_cells' = sav.treasure_cells
    /\ start_time' = sav.start_time
    /\ flag_count' = sav.flag_count
    /\ clicked_count' = sav.clicked_count
    /\ is_test_mode' = FALSE
    /\ test_board' = NoTestBoard
    /\ view' \in {"GUI", "Text"}
    /\ IF view' = "Text"
            /\ sav.clicked_count
                 = SizeX * SizeY - sav.mines - sav.num_treasures
       THEN /\ game_over_calls' = <<TRUE>>
            /\ board' = reveal_mines_and_treasures(sav.board)
            /\ sav' = NoSave
            /\ pc' = "prompt"
       ELSE /\ game_over_calls' = <<>>
            /\ board' = sav.board
            /\ sav' = sav
            /\ pc' = "playing"
    /\ pending' = <<>>
    /\ late' = 0
    /\ stack' = <<>>
    /\ last_op' = Op("main", "continue")
    /\ fill' = fill

\* TextView.process_command "r x y" inside the board: lines 692-697 set
\* start_time and reject a revealed or flagged cell exactly as on_click does,
\* then on_click runs
process_command_r(c) ==
    /\ view = "Text" /\ pc = "playing"
    /\ on_click(c)
    /\ UNCHANGED <<late, pending>>

\* TextView.process_command "f x y" inside the board
process_command_f(c) ==
    /\ view = "Text" /\ pc = "playing"
    /\ on_right_click(c)
    /\ late' = late

\* TextView.game_over, lines 735-740: "y" at "Play again?"
game_over_play_again ==
    /\ view = "Text" /\ pc = "prompt"
    /\ pc' = "playing"
    /\ UNCHANGED <<pending, late, stack>>
    /\ restart_game

\* TextView.game_over, lines 741-742: another answer at "Play again?"
game_over_exit ==
    /\ view = "Text" /\ pc = "prompt"
    /\ pc' = "exited"
    /\ last_op' = Op("game_over", "exit")
    /\ UNCHANGED <<modelVars, view, pending, game_over_calls, late, fill,
                   stack, sav>>

Next ==
    \/ \E c \in Cells : on_canvas_click(c)
    \/ \E c \in Cells : MayRightClick(c, MaxFlags) /\ on_canvas_right_click(c)
    \/ GUIView_game_over_returns
    \/ show_game_over_message
    \/ show_game_over_message_yes
    \/ show_game_over_message_no
    \/ MayQuit /\ on_quit
    \/ on_quit_returns
    \/ \E c \in Cells : process_command_r(c)
    \/ \E c \in Cells : MayRightClick(c, MaxFlags) /\ process_command_f(c)
    \/ MayQuit /\ process_command_q
    \/ game_over_play_again
    \/ game_over_exit
    \/ main_continue

Spec == Init /\ [][Next]_vars

\* ------------------------------------------- the controller called directly
\* the row and column numbers a caller may pass: the board's, and those up to
\* one list length and one more below it and at and above its length
AnyRows == (0 - SizeX - 1)..SizeX
AnyCols == (0 - SizeY - 1)..SizeY

\* lst[i] on a Python list of length n raises IndexError
raises_IndexError(i, n) == i >= n \/ i < 0 - n

\* the position lst[i] reads on a Python list of length n when it does not
\* raise: a negative i counts from the end of the list
list_index(i, n) == IF i < 0 THEN i + n ELSE i

\* self.model.board[x][y] (lines 205 and 242): the cell read
board_cell(x, y) == <<list_index(x, SizeX), list_index(y, SizeY)>>

\* GameController.on_click(x, y) called with any integers while no handler
\* of the view waits: line 205 raises IndexError before anything is assigned,
\* or reads the cell Python's indexing gives
GameController_on_click(x, y) ==
    /\ Handles /\ BeforeDialog /\ stack = <<>>
    /\ IF raises_IndexError(x, SizeX) \/ raises_IndexError(y, SizeY)
       THEN /\ last_op' = Op("on_click", "IndexError")
            /\ UNCHANGED <<modelVars, view, pc, pending, game_over_calls, late,
                           fill, stack, sav>>
       ELSE /\ on_click(board_cell(x, y))
            /\ dispatched

\* GameController.on_right_click(x, y) called with any integers
GameController_on_right_click(x, y) ==
    /\ Handles /\ BeforeDialog /\ stack = <<>>
    /\ IF raises_IndexError(x, SizeX) \/ raises_IndexError(y, SizeY)
       THEN /\ last_op' = Op("on_right_click", "IndexError")
            /\ UNCHANGED <<modelVars, view, pc, pending, game_over_calls, late,
                           fill, stack, sav>>
       ELSE /\ MayRightClick(board_cell(x, y), MaxFlags)
            /\ on_right_click(board_cell(x, y))
            /\ late' = IF pending = <<>> THEN 0 ELSE late + 1

\* the controller's handlers called with any integers (the calls the views
\* make are among them) in one game, up to the dialog or the prompt that ends
\* it
ControllerNext ==
    \/ GUIView_game_over_returns
    \/ show_game_over_message
    \/ \E x \in AnyRows, y \in AnyCols : GameController_on_click(x, y)
    \/ \E x \in AnyRows, y \in AnyCols : GameController_on_right_click(x, y)

ControllerSpec == Init /\ [][ControllerNext]_vars

\* ------------------------------------------------ GameModel construction
\* the mine and treasure counts a caller may request: none up to one more than
\* the board has cells
RequestCounts == 0..(SizeX * SizeY + 1)

\* the test boards a caller may pass, as lists of rows: up to one row and one
\* column fewer or more than the board, the list without rows included
MatrixRows == 0..(SizeX + 1)
MatrixCols == 0..(SizeY + 1)

\* the r x c list of rows with value 1 at the positions M, 2 at the positions
\* T and 0 elsewhere (positions count from 1, as Sequences do)
matrix(r, c, M, T) ==
    [i \in 1..r |-> [j \in 1..c |->
        IF <<i, j>> \in M THEN 1 ELSE IF <<i, j>> \in T THEN 2 ELSE 0]]

\* the subsets of S with at most k elements
at_most(S, k) == {P \in SUBSET S : Cardinality(P) <= k}

Matrices ==
    UNION {UNION {{matrix(r, c, M, T) :
                       T \in at_most(((1..r) \X (1..c)) \ M, MaxTreasures)} :
                  M \in at_most((1..r) \X (1..c), MaxMines)} :
           r \in MatrixRows, c \in MatrixCols}

\* test_board=None
NoMatrix == << >>

\* the list of rows mx has exactly the board's dimensions
ExactDims(mx) ==
    /\ Len(mx) = SizeX
    /\ \A i \in 1..Len(mx) : Len(mx[i]) = SizeY

\* initialize_board_from_test_board, line 81: test_board[x][y] raises
\* IndexError for some x in range(size_x), y in range(size_y)
test_board_IndexError(mx) ==
    \/ Len(mx) < SizeX
    \/ \E i \in 1..SizeX : i <= Len(mx) /\ Len(mx[i]) < SizeY

\* the values initialize_board_from_test_board reads: test_board[x][y] for the
\* cells of the board
test_board_values(mx) == [c \in Cells |-> mx[c[1] + 1][c[2] + 1]]

\* every GameModel that place_mines, calculate_adjacent_mines and
\* place_treasures can build for nm mines and nt treasures (nm <= cells)
GameModel_random_models(nm, nt) ==
    UNION {{random_model(nm, nt, M, T) : T \in treasure_samples(M, nt)} :
           M \in sample(Cells, nm)}

\* the state inside GameModel.__init__ after line 64: the arguments are stored
\* and the board is blank; test_board is a list of rows, or None
ConstructInit ==
    /\ pc = "new"
    /\ view = "none"
    /\ pending = << >>
    /\ late = 0
    /\ game_over_calls = << >>
    /\ last_op = Op("new", "")
    /\ fill = NoFill
    /\ stack = <<>>
    /\ sav = NoSave
    /\ board = [c \in Cells |-> Cell]
    /\ mines = 0
    /\ treasure_cells = {}
    /\ start_time = None
    /\ flag_count = 0
    /\ clicked_count = 0
    /\ num_mines \in RequestCounts
    /\ num_treasures \in RequestCounts
    /\ \/ is_test_mode = FALSE /\ test_board = NoMatrix
       \/ is_test_mode = TRUE /\ test_board \in Matrices

\* the fields that construction leaves as __init__ stored them
ConstructFrame ==
    UNCHANGED <<test_board, is_test_mode, start_time, flag_count,
                clicked_count, view, pending, game_over_calls, late, fill, stack, sav>>

\* GameModel.__init__, lines 65-66: a test board that is not empty goes to
\* initialize_board_from_test_board, which raises IndexError when the list is
\* too short and otherwise reads the top left size_x x size_y values
GameModel_init_test_board ==
    /\ pc = "new"
    /\ is_test_mode /\ test_board # << >>
    /\ IF test_board_IndexError(test_board)
       THEN /\ pc' = "IndexError"
            /\ last_op' = Op("GameModel", "IndexError")
            /\ UNCHANGED <<board, mines, num_mines, num_treasures,
                           treasure_cells>>
       ELSE LET m == fixed_model(num_mines, test_board_values(test_board))
            IN /\ pc' = "constructed"
               /\ board' = m.board
               /\ mines' = m.mines
               /\ num_mines' = m.num_mines
               /\ num_treasures' = m.num_treasures
               /\ treasure_cells' = m.treasure_cells
               /\ last_op' = Op("GameModel",
                                IF m.num_treasures # num_treasures
                                THEN "num_treasures overridden" ELSE "fixed")
    /\ ConstructFrame

\* GameModel.__init__, lines 67-70: without a test board, or with an empty
\* one, place_mines (random.sample raises ValueError for more mines than
\* cells), calculate_adjacent_mines and place_treasures
GameModel_init_random ==
    /\ pc = "new"
    /\ ~(is_test_mode /\ test_board # << >>)
    /\ IF num_mines > SizeX * SizeY
       THEN /\ pc' = "ValueError"
            /\ last_op' = Op("GameModel", "ValueError")
            /\ UNCHANGED <<board, mines, num_mines, num_treasures,
                           treasure_cells>>
       ELSE \E m \in GameModel_random_models(num_mines, num_treasures) :
               /\ pc' = "constructed"
               /\ board' = m.board
               /\ mines' = m.mines
               /\ num_mines' = m.num_mines
               /\ num_treasures' = m.num_treasures
               /\ treasure_cells' = m.treasure_cells
               /\ last_op' = Op("GameModel", "random")
    /\ ConstructFrame

ConstructNext == GameModel_init_test_board \/ GameModel_init_random

ConstructSpec == ConstructInit /\ [][ConstructNext]_vars

\* ------------------------------------------- the flood fill, step by step
\* on_click(c) takes the branch of line 223
fills(c) == ~rejects(c) /\ branch(c) = "flood"

\* on_click(x, y), lines 205-224, and reveal_empty_cells, lines 265-266: the
\* cell is revealed and counted, and the queue starts with it
reveal_empty_cells_call(c) ==
    /\ Handles /\ BeforeDialog /\ ~fill.active
    /\ view = "GUI" => Len(stack) < MaxDepth
    /\ fills(c)
    /\ start_time' = IF start_time = None THEN Now ELSE start_time
    /\ board' = [board EXCEPT ![c].is_revealed = TRUE]
    /\ clicked_count' = clicked_count + 1
    /\ fill' = [active |-> TRUE, queue |-> <<c>>, enqueued |-> <<c>>,
                dequeued |-> <<>>]
    /\ late' = IF view = "Text" THEN late
               ELSE IF pending = <<>> THEN 0 ELSE late + 1
    /\ last_op' = Op("reveal_empty_cells", "call")
    /\ UNCHANGED <<mines, num_mines, num_treasures, treasure_cells, test_board,
                   is_test_mode, flag_count, view, pc, pending,
                   game_over_calls, sav>>
    /\ stack' = counted

\* reveal_empty_cells, lines 267-282: one pass of the while loop
reveal_empty_cells_loop ==
    /\ fill.active /\ fill.queue # <<>>
    /\ LET current == Head(fill.queue)
           r == scan_neighbors(neighbors[current], 1, Tail(fill.queue), board,
                               clicked_count, treasure_cells)
       IN /\ board' = r.board
          /\ clicked_count' = r.clicked_count
          /\ fill' = [fill EXCEPT
                        !.queue = r.queue,
                        !.enqueued = @ \o SubSeq(r.queue, Len(fill.queue),
                                                 Len(r.queue)),
                        !.dequeued = Append(@, current)]
    /\ last_op' = Op("reveal_empty_cells", "loop")
    /\ UNCHANGED <<mines, num_mines, num_treasures, treasure_cells, test_board,
                   is_test_mode, start_time, flag_count, view, pc, pending,
                   game_over_calls, late, stack, sav>>

\* the queue is empty: the win test of lines 283-285 and, when it makes no
\* view.game_over call, the return to on_click and its win test of lines
\* 228-230, which finds the same count
reveal_empty_cells_return ==
    /\ fill.active /\ fill.queue = <<>>
    /\ IF win_check(clicked_count) # <<>>
       THEN /\ game_over_calls' = Append(game_over_calls, TRUE)
            /\ sav' = clear_saved_game
            /\ IF view = "GUI"
               THEN /\ stack' = Append(stack, Frame("on_click", "update", TRUE,
                                                    "win_test", "flood",
                                                    <<TRUE>>))
                    /\ UNCHANGED <<board, pc>>
               ELSE /\ board' = reveal_mines_and_treasures(board)
                    /\ pc' = "prompt"
                    /\ stack' = stack
       ELSE UNCHANGED <<board, game_over_calls, sav, stack, pc>>
    /\ last_op' = Op("on_click", "flood")
    /\ fill' = NoFill
    /\ UNCHANGED <<mines, num_mines, num_treasures, treasure_cells, test_board,
                   is_test_mode, start_time, flag_count, clicked_count, view,
                   pending, late>>

\* a game on a GameModel constructed with any number of mines and treasures
\* from none to the bounds (GameModel(size_x, size_y, num_mines,
\* num_treasures) places what it is asked to), under either view
DirectInit ==
    /\ view \in {"GUI", "Text"}
    /\ pc = "playing"
    /\ pending = <<>>
    /\ late = 0
    /\ game_over_calls = <<>>
    /\ last_op = Op("new", "")
    /\ fill = NoFill
    /\ stack = <<>>
    /\ sav = NoSave
    /\ start_time = None
    /\ flag_count = 0
    /\ clicked_count = 0
    /\ is_test_mode = FALSE
    /\ test_board = NoTestBoard
    /\ \E nm \in 0..MaxMines, nt \in 0..MaxTreasures :
         \E m \in GameModel_random_models(nm, nt) :
              /\ board = m.board
              /\ mines = m.mines
              /\ num_mines = m.num_mines
              /\ num_treasures = m.num_treasures
              /\ treasure_cells = m.treasure_cells

\* one game, reveal_empty_cells run whole: the views' events up to the
\* dialog or the prompt that ends the game (the dialog opens and waits)
PlayNext ==
    \/ \E c \in Cells : on_canvas_click(c)
    \/ \E c \in Cells : MayRightClick(c, MaxPlayFlags) /\ on_canvas_right_click(c)
    \/ GUIView_game_over_returns
    \/ show_game_over_message
    \/ \E c \in Cells : process_command_r(c)
    \/ \E c \in Cells : MayRightClick(c, MaxPlayFlags) /\ process_command_f(c)

PlaySpec == DirectInit /\ [][PlayNext]_vars

\* the same game with reveal_empty_cells run one pass of its loop at a time;
\* no event loop runs, and so no other handler, before the fill has returned
FillNext ==
    \/ \E c \in Cells : ~fill.active /\ ~fills(c) /\ on_canvas_click(c)
    \/ \E c \in Cells : ~fill.active /\ MayRightClick(c, MaxFlags)
                         /\ on_canvas_right_click(c)
    \/ \E c \in Cells : ~fill.active /\ ~fills(c) /\ process_command_r(c)
    \/ \E c \in Cells : ~fill.active /\ MayRightClick(c, MaxFlags)
                         /\ process_command_f(c)
    \/ ~fill.active /\ GUIView_game_over_returns
    \/ ~fill.active /\ show_game_over_message
    \/ \E c \in Cells : reveal_empty_cells_call(c)
    \/ reveal_empty_cells_loop
    \/ reveal_empty_cells_return

FillSpec == DirectInit /\ [][FillNext]_vars

\* the interpreter runs a handler that has started to its end
FillLive ==
    FillSpec /\ WF_vars(reveal_empty_cells_loop \/ reveal_empty_cells_return)

\* ------------------------------------------------ the test board validator
\* the literals of load_and_validate_test_board: 8 rows of 8 values, 10 mines,
\* at most 9 treasures
BoardSide == 8
RequiredMines == 10
TreasureLimit == 9

\* the positions of an 8 x 8 board, (row, column) counted from 1 as the rows
\* of a file are
Squares == (1..BoardSide) \X (1..BoardSide)

\* the strings of a CSV row: "0", "1", "2", and "x" for any other string
Tokens == {"0", "1", "2", "x"}

\* the file at file_path: exists is os.path.exists(file_path); rows are the
\* rows csv.reader yields; error is "" when the file is read to its end, and
\* else str(e) of the exception that open or the reader raises after these
\* rows
File(rows) == [exists |-> TRUE, rows |-> rows, error |-> ""]

\* int(value) for the accepted strings
int(t) == IF t = "0" THEN 0 ELSE IF t = "1" THEN 1 ELSE 2

\* lines 768-775: the first row i.. of the file that ends the reading loop,
\* with its message: a row of the wrong length, or else a value that is not
\* "0", "1" or "2"; "" when every row is read
RECURSIVE read_rows(_, _)
read_rows(rows, i) ==
    IF i > Len(rows) THEN ""
    ELSE IF Len(rows[i]) # BoardSide THEN "Each row must have exactly 8 values."
    ELSE IF \E j \in 1..BoardSide : rows[i][j] \notin {"0", "1", "2"}
         THEN "Each cell must be 0, 1, or 2."
    ELSE read_rows(rows, i + 1)

\* line 775: the parsed board of a file whose rows were all read
parsed_board(rows) ==
    [i \in 1..Len(rows) |-> [j \in 1..Len(rows[i]) |-> int(rows[i][j])]]

\* lines 782, 794, 809: the counts over the 8 x 8 board b
mine_count(b) == Cardinality({q \in Squares : b[q[1]][q[2]] = 1})
\* a variant of diagonal_mines that stops at the first mine on the diagonal
diagonal_mines_first(b) ==
    IF \E i \in 1..BoardSide : b[i][i] = 1 THEN 1 ELSE 0
diagonal_mines(b) == Cardinality({i \in 1..BoardSide : b[i][i] = 1})
treasure_count(b) == Cardinality({q \in Squares : b[q[1]][q[2]] = 2})

\* a variant of adjacent_pairs that counts the pairs within a row only
adjacent_pairs_in_rows(b) ==
    Cardinality({q \in Squares :
                    b[q[1]][q[2]] = 1 /\ q[2] < BoardSide
                       /\ b[q[1]][q[2] + 1] = 1})

\* lines 798-805: every mine counts its right and its lower neighbour mine
adjacent_pairs(b) ==
    Cardinality({q \in Squares :
                    b[q[1]][q[2]] = 1 /\ q[2] < BoardSide
                       /\ b[q[1]][q[2] + 1] = 1})
    + Cardinality({q \in Squares :
                    b[q[1]][q[2]] = 1 /\ q[1] < BoardSide
                       /\ b[q[1] + 1][q[2]] = 1})

\* the messages of lines 784, 788, 792, 796 and 807
mines_message(n) ==
    "Number of mines must be exactly 10. Found " \o ToString(n) \o "."
row_message(i) ==
    "Row " \o ToString(i) \o " does not have at least one mine."
column_message(j) ==
    "Column " \o ToString(j) \o " does not have at least one mine."
diagonal_message(n) ==
    "There must be exactly one mine on the main diagonal. Found "
       \o ToString(n) \o "."
pairs_message(n) ==
    "There must be exactly one pair of adjacent mines horizontally or vertically. Found "
       \o ToString(n) \o " pairs."

\* lines 786-792: the rows, and the columns, of board b without a mine
empty_rows(b) ==
    {i \in 1..BoardSide : \A j \in 1..BoardSide : b[i][j] # 1}
empty_columns(b) ==
    {j \in 1..BoardSide : \A i \in 1..BoardSide : b[i][j] # 1}

\* the least number of a non-empty set of numbers: the loops of lines 786 and
\* 789 return at the first row or column they find
first(S) == CHOOSE i \in S : \A k \in S : i <= k

\* lines 782-813 on the parsed board b: the message of the first failing test
board_message(b) ==
    IF mine_count(b) # RequiredMines THEN mines_message(mine_count(b))
    ELSE IF empty_rows(b) # {} THEN row_message(first(empty_rows(b)))
    ELSE IF empty_columns(b) # {}
         THEN column_message(first(empty_columns(b)))
    ELSE IF diagonal_mines(b) # 1 THEN diagonal_message(diagonal_mines(b))
    ELSE IF adjacent_pairs(b) # 1 THEN pairs_message(adjacent_pairs(b))
    ELSE IF treasure_count(b) < 1 THEN "There must be at least one treasure."
    ELSE IF treasure_count(b) > TreasureLimit
         THEN "There must be no more than 9 treasures."
    ELSE "Board is valid."

\* load_and_validate_test_board on the file f: the tuple (valid, message,
\* board) it returns.  A return inside the reading loop comes before an
\* exception raised after the rows read so far
load_and_validate_test_board(f) ==
    LET m1 == read_rows(f.rows, 1)
        m2 == IF ~f.exists THEN "File does not exist."
              ELSE IF m1 # "" THEN m1
              ELSE IF f.error # "" THEN "Error reading file: " \o f.error
              ELSE IF Len(f.rows) # BoardSide
                   THEN "There must be exactly 8 rows."
              ELSE board_message(parsed_board(f.rows))
    IN [valid |-> m2 = "Board is valid.", message |-> m2,
        board |-> IF m2 = "Board is valid." THEN parsed_board(f.rows)
                  ELSE NoMatrix]

\* the CSV rows of the board with mines M and treasures T
csv_file(M, T) ==
    [i \in 1..BoardSide |-> [j \in 1..BoardSide |->
        IF <<i, j>> \in M THEN "1" ELSE IF <<i, j>> \in T THEN "2" ELSE "0"]]

\* the mines of the example board, (row, column) counted from 0
FixtureMines0 ==
    {<<0, 0>>, <<0, 3>>, <<1, 5>>, <<1, 6>>, <<2, 1>>, <<3, 4>>, <<4, 7>>,
     <<5, 2>>, <<6, 6>>, <<7, 3>>}

\* the same positions counted from 1
FixtureMines == {<<q[1] + 1, q[2] + 1>> : q \in FixtureMines0}

\* two layouts that meet every rule for the mines: the example board with its
\* mine at (6,6) moved to (6,5), whose edge-sharing pair lies in a row, and the
\* same board mirrored at the main diagonal, whose pair lies in a column
RowPairMines == (FixtureMines \ {<<7, 7>>}) \cup {<<7, 6>>}
ColumnPairMines == {<<q[2], q[1]>> : q \in RowPairMines}

\* the first t squares in row-major order that hold no mine of M
first_free(M, t) ==
    {q \in Squares \ M :
        Cardinality({p \in Squares \ M :
                        BoardSide * (p[1] - 1) + p[2]
                          <= BoardSide * (q[1] - 1) + q[2]}) <= t}

\* the boards the files tried are made from: both layouts with one treasure,
\* and the first with no treasure, nine and ten
BaseBoards ==
    {csv_file(RowPairMines, first_free(RowPairMines, t)) :
        t \in {0, 1, TreasureLimit, TreasureLimit + 1}}
    \cup {csv_file(ColumnPairMines, first_free(ColumnPairMines, 1))}

\* the rows with the value at square q replaced by t
edit(rows, q, t) == [rows EXCEPT ![q[1]][q[2]] = t]

\* the tables made from the tables in S by replacing up to k values
RECURSIVE edits(_, _)
edits(S, k) ==
    IF k = 0 THEN S
    ELSE LET fewer == edits(S, k - 1)
         IN fewer \cup {edit(rows, q, t) :
                          rows \in fewer, q \in Squares, t \in {"0", "1", "2"}}

\* the well-formed files tried: 8 rows of 8 values over "0", "1", "2", up to
\* MaxEdits values away from one of the boards above
WellFormedFiles == {File(rows) : rows \in edits(BaseBoards, MaxEdits)}

\* the rows a malformed file may hold in place of a row r: r with another
\* string as its first value, r without its last value (and with another
\* string first), r with a value more, an empty row, and a row of "0" after
\* another string
bad_rows(r) ==
    {[r EXCEPT ![1] = "x"], SubSeq(r, 1, BoardSide - 1),
     [SubSeq(r, 1, BoardSide - 1) EXCEPT ![1] = "x"], Append(r, "0"), <<>>,
     [j \in 1..BoardSide |-> IF j = 1 THEN "x" ELSE "0"]}

\* the first n rows of a valid board followed by itself
some_rows(n) ==
    LET b == csv_file(RowPairMines, first_free(RowPairMines, 1))
    IN SubSeq(b \o b, 1, n)

\* rows with up to two of them replaced by bad rows
malformed(rows) ==
    {rows}
    \cup UNION {{[rows EXCEPT ![i] = r] : r \in bad_rows(rows[i])} :
                i \in 1..Len(rows)}
    \cup UNION {{[rows EXCEPT ![p[1]] = r1, ![p[2]] = r2] :
                    r1 \in bad_rows(rows[p[1]]), r2 \in bad_rows(rows[p[2]])} :
                p \in {p \in (1..Len(rows)) \X (1..Len(rows)) : p[1] < p[2]}}

\* str(e) of the exceptions raised before a row is read: open on a directory,
\* and the reader on a file whose first byte is no UTF-8
OpenErrors ==
    {"[Errno 21] Is a directory: 'board.csv'",
     "'utf-8' codec can't decode byte 0xff in position 0: invalid start byte"}

\* str(e) of the OSError of a read that fails after some rows
ReadError == "[Errno 5] Input/output error"

\* the other files tried: no file at the path; files of up to one row more
\* than 8, rows of 7, 8 and 9 values and empty ones, and values other than
\* "0", "1", "2"; files that cannot be opened or decoded; and files whose
\* reading fails after some rows
OtherFiles ==
    {[exists |-> FALSE, rows |-> <<>>, error |-> ""]}
    \cup {File(rows) :
            rows \in UNION {malformed(some_rows(n)) : n \in 0..(BoardSide + 1)}}
    \cup {[exists |-> TRUE, rows |-> <<>>, error |-> e] : e \in OpenErrors}
    \cup {[exists |-> TRUE, rows |-> rows, error |-> ReadError] :
            rows \in UNION {malformed(some_rows(n)) : n \in {0, 1, BoardSide}}}

\* before the call: test_board holds the file, nothing is returned
ValidatorInit ==
    /\ pc = "new"
    /\ test_board \in WellFormedFiles \cup OtherFiles
    /\ board = NoMatrix
    /\ is_test_mode = FALSE
    /\ view = "none"
    /\ pending = << >>
    /\ late = 0
    /\ game_over_calls = << >>
    /\ last_op = Op("new", "")
    /\ fill = NoFill
    /\ stack = <<>>
    /\ sav = NoSave
    /\ mines = 0
    /\ num_mines = 0
    /\ num_treasures = 0
    /\ treasure_cells = {}
    /\ start_time = None
    /\ flag_count = 0
    /\ clicked_count = 0

\* main, line 864: valid, message, board = load_and_validate_test_board(path)
validate ==
    /\ pc = "new"
    /\ LET r == load_and_validate_test_board(test_board)
       IN /\ pc' = IF r.valid THEN "valid" ELSE "invalid"
          /\ board' = r.board
          /\ last_op' = Op("load_and_validate_test_board", r.message)
    /\ UNCHANGED <<mines, num_mines, num_treasures, treasure_cells, test_board,
                   is_test_mode, start_time, flag_count, clicked_count, view,
                   pending, game_over_calls, late, fill, stack, sav>>

ValidatorNext == validate

ValidatorSpec == ValidatorInit /\ [][ValidatorNext]_vars

\* ------------------------------------- the validator on the example board
FixtureFree == Squares \ FixtureMines

\* the treasure sets tried: every set of at most FixtureTreasures free cells,
\* the empty one included, and the free cells among the first t positions in
\* row-major order as long as they are at most TreasureLimit + 1
RECURSIVE sets_up_to(_, _)
sets_up_to(S, k) ==
    IF k = 0 THEN {{}}
    ELSE LET smaller == sets_up_to(S, k - 1)
         IN smaller \cup {P \cup {x} : P \in smaller, x \in S}

FixtureTreasureSets ==
    sets_up_to(FixtureFree, FixtureTreasures)
    \cup {P \in {{q \in FixtureFree : BoardSide * (q[1] - 1) + q[2] <= t} :
                    t \in 1..(BoardSide * BoardSide)} :
             Cardinality(P) <= TreasureLimit + 1}

\* before the call: test_board holds the file of the example board
FixtureInit ==
    /\ pc = "new"
    /\ \E T \in FixtureTreasureSets :
          test_board = File(csv_file(FixtureMines, T))
    /\ board = NoMatrix
    /\ is_test_mode = FALSE
    /\ view = "none"
    /\ pending = << >>
    /\ late = 0
    /\ game_over_calls = << >>
    /\ last_op = Op("new", "")
    /\ fill = NoFill
    /\ stack = <<>>
    /\ sav = NoSave
    /\ mines = 0
    /\ num_mines = 0
    /\ num_treasures = 0
    /\ treasure_cells = {}
    /\ start_time = None
    /\ flag_count = 0
    /\ clicked_count = 0

FixtureNext == validate

FixtureSpec == FixtureInit /\ [][FixtureNext]_vars

\* ---------------------------------------------------------- the properties
\* c and d are different cells a king's move apart (8-neighbourhood, clipped
\* at the edges of the board, no wraparound)
KingAdjacent(c, d) ==
    /\ c # d
    /\ c[1] - d[1] \in {-1, 0, 1}
    /\ c[2] - d[2] \in {-1, 0, 1}

\* c is a treasure cell or is adjacent to one
NearTreasure(c) ==
    \/ board[c].has_treasure
    \/ \E t \in Cells : board[t].has_treasure /\ KingAdjacent(c, t)

IsSafe(c) == ~board[c].is_mine /\ ~board[c].has_treasure

SafeRevealed == {c \in Cells : board[c].is_revealed /\ IsSafe(c)}

AllSafeRevealed == \A c \in Cells : IsSafe(c) => board[c].is_revealed

NoMineOrTreasureRevealed ==
    \A c \in Cells : board[c].is_revealed => IsSafe(c)

\* the step reveals cell c
BecomesRevealed(c) == ~board[c].is_revealed /\ board'[c].is_revealed

\* the step is a call on_click(c).  (The first conjunct follows from the
\* second: it keeps on_click(c) from being evaluated on other steps)
OnClick(c) == last_op'.op = "on_click" /\ on_click(c)

\* the step is a call on_click(c) that passes the test of line 209.  (The
\* conjuncts on last_op follow from on_click(c))
Clicks(c) ==
    /\ ~board[c].is_revealed /\ ~board[c].is_flagged
    /\ last_op'.op = "on_click" /\ last_op'.path = branch(c)
    /\ on_click(c)

\* the step is a handler call of the controller on some cell
HandlerStep == \E c \in Cells : on_click(c) \/ on_right_click(c)

\* the on_click calls on path p that wait in root.update() of their
\* view.game_over call
Waiting(p) ==
    {i \in 1..Len(stack) : stack[i].op = "on_click" /\ stack[i].path = p}

\* C1: an on_click call reveals no treasure cell, no cell adjacent to a
\* treasure, no mine and no flagged cell other than its own target cell (and
\* never a flagged target): the flood fill reveals none of them.  An
\* on_right_click call reveals nothing.  (Stated by contraposition: a step
\* that reveals such a cell is no on_click(d), a step that reveals a cell is
\* no on_right_click(d) and no on_click(d) on a revealed or flagged cell d.)
C1_TreasureAvoidance ==
    [][\A c \in Cells :
          BecomesRevealed(c)
          => \A d \in Cells :
                /\ ~(\/ c = d /\ ~board[d].is_flagged
                     \/ ~NearTreasure(c) /\ ~board[c].is_mine
                           /\ ~board[c].is_flagged)
                     => ~Clicks(d)
                /\ ~on_right_click(d)
                /\ (board[d].is_revealed \/ board[d].is_flagged)
                      => ~OnClick(d)]_vars

\* C2: once view.game_over has been called on a game, a later on_click or
\* on_right_click changes no cell, no counter, and signals no further game over.
C2_GameOverIsTerminal ==
    [][(game_over_calls # <<>> /\ HandlerStep)
         => UNCHANGED <<board, clicked_count, flag_count, game_over_calls>>]_vars

\* C3: on_click on an unrevealed, unflagged mine reveals exactly that cell and
\* makes exactly one view.game_over call, with False: the call is made in the
\* step, and the on_click that waits in it has made no other and makes none
\* when it goes on.
C3_HitMine ==
    /\ [][\A c \in Cells :
            (board[c].is_mine /\ Clicks(c))
            => /\ board' = [board EXCEPT ![c].is_revealed = TRUE]
               /\ game_over_calls' = Append(game_over_calls, FALSE)]_vars
    /\ [](\A i \in Waiting("mine") :
            stack[i].made = <<FALSE>> /\ stack[i].then = "return")

\* C4: on_click on an unrevealed, unflagged treasure reveals exactly that cell
\* and makes exactly one view.game_over call, with True, whatever the count:
\* the call is made in the step, and the on_click that waits in it has made no
\* other and makes none when it goes on.
C4_FoundTreasure ==
    /\ [][\A c \in Cells :
            (board[c].has_treasure /\ Clicks(c))
            => /\ board' = [board EXCEPT ![c].is_revealed = TRUE]
               /\ game_over_calls' = Append(game_over_calls, TRUE)]_vars
    /\ [](\A i \in Waiting("treasure") :
            stack[i].made = <<TRUE>> /\ stack[i].then = "return")

\* C5: in a game in which no mine and no treasure has been revealed, the
\* on_click on a safe cell after which every safe cell is revealed calls
\* view.game_over(True), and no on_click on a safe cell makes a
\* view.game_over(False) call.
C5_WinByCount ==
    /\ [][\A c \in Cells :
            (IsSafe(c) /\ NoMineOrTreasureRevealed /\ AllSafeRevealed'
               /\ Clicks(c))
            => game_over_calls' = Append(game_over_calls, TRUE)]_vars
    /\ [](\A i \in Waiting("number") \cup Waiting("flood") :
            \A k \in 1..Len(stack[i].made) : stack[i].made[k])

\* a flood fill revealed the last safe cells and the win was signalled
C5_Witness ==
    /\ view = "GUI"
    /\ last_op = Op("on_click", "flood")
    /\ AllSafeRevealed /\ NoMineOrTreasureRevealed
    /\ game_over_calls # <<>> /\ game_over_calls[1]

\* adjacent_mines of every cell is the number of mines a king's move away
AdjacencyCounts ==
    \A c \in Cells :
        board[c].adjacent_mines
          = Cardinality({d \in Cells : KingAdjacent(c, d) /\ board[d].is_mine})

\* the step leaves is_mine, has_treasure and adjacent_mines of every cell alone
LayoutUnchanged ==
    \A c \in Cells :
        /\ board'[c].is_mine = board[c].is_mine
        /\ board'[c].has_treasure = board[c].has_treasure
        /\ board'[c].adjacent_mines = board[c].adjacent_mines

\* C6: in every state adjacent_mines[c] is the number of mines in the
\* 8-neighbourhood of c, and no step of a game changes is_mine, has_treasure
\* or adjacent_mines: the board has another layout only after restart_game has
\* constructed a new GameModel or main has put the GameModel of <level>.sav,
\* constructed in an earlier run, in place.
C6_AdjacencyCounts ==
    /\ []AdjacencyCounts
    /\ [][last_op'.op \notin {"restart_game", "main"} => LayoutUnchanged]_vars

\* a revealed cell counts the mine diagonally next to it
C6_Witness ==
    \E c, d \in Cells :
        /\ c[1] # d[1] /\ c[2] # d[2] /\ KingAdjacent(c, d)
        /\ board[d].is_mine
        /\ board[c].is_revealed /\ board[c].adjacent_mines = 1
        /\ last_op.op = "on_click"

\* C7: no cell is both a mine and a treasure.
C7_MineTreasureExclusive ==
    \A c \in Cells : ~(board[c].is_mine /\ board[c].has_treasure)

\* a randomly placed board, in play, with its mine and its treasure
C7_Witness ==
    /\ ~is_test_mode
    /\ \E c \in Cells : board[c].is_mine
    /\ \E c \in Cells : board[c].has_treasure
    /\ clicked_count > 0

\* C8: on_click on a revealed cell changes no cell, no counter, not
\* start_time, and calls no view.game_over (no call is recorded and no new
\* handler waits in root.update()).
C8_RevealIdempotent ==
    [][\A c \in Cells :
          (board[c].is_revealed /\ OnClick(c))
          => /\ UNCHANGED <<board, clicked_count, flag_count, start_time,
                            game_over_calls, pending, pc>>
             /\ stack' = counted]_vars

\* an on_click returned at line 210 with no flag on the board: its cell was
\* revealed already
C8_Witness ==
    /\ last_op = Op("on_click", "rejected")
    /\ flag_count = 0
    /\ \E c \in Cells : board[c].is_revealed

\* C9: start_time is None as long as no cell has been revealed.
C9_StartOnFirstReveal ==
    (\A c \in Cells : ~board[c].is_revealed) => start_time = None

\* C10: clicked_count is the number of revealed cells that are neither a mine
\* nor a treasure.
C10_ClickedCountIsSafeCount ==
    clicked_count = Cardinality(SafeRevealed)

\* C10 as amended: clicked_count is the number of revealed safe cells as long
\* as no mine or treasure is revealed, and every step of a handler adds to it
\* the number of safe cells it reveals, plus one when it is an on_click that
\* reveals a mine or a treasure.  (restart_game and main put another
\* GameModel in place.)
C10_ClickedCountAmended ==
    /\ [](NoMineOrTreasureRevealed => clicked_count = Cardinality(SafeRevealed))
    /\ [][last_op'.op \notin {"restart_game", "main"} =>
            clicked_count' - clicked_count
              = Cardinality({c \in Cells : BecomesRevealed(c) /\ IsSafe(c)})
                + (IF \E c \in Cells : ~IsSafe(c) /\ Clicks(c) THEN 1 ELSE 0)]_vars

\* a mine was clicked after a flood fill: the count is one more than the
\* number of revealed safe cells
C10_Witness ==
    /\ view = "GUI"
    /\ last_op = Op("on_click", "mine")
    /\ Cardinality(SafeRevealed) >= 2
    /\ clicked_count = Cardinality(SafeRevealed) + 1


\* two on_right_click calls in a row on cell c, from board b and count fc
TwoRightClicks(b, fc, c) ==
    LET r1 == right_click(b, fc, c)
    IN right_click(r1.board, r1.flag_count, c)

\* C11: in every state and for every unrevealed cell c, two consecutive
\* on_right_click(c) calls give back the board (is_flagged of c and every other
\* cell) and flag_count; and every on_right_click call on an unrevealed cell
\* flips is_flagged of that cell only, moves flag_count by one accordingly and
\* leaves clicked_count and start_time alone.
C11_FlagToggleInvolution ==
    /\ [](\A c \in Cells :
            ~board[c].is_revealed =>
               /\ TwoRightClicks(board, flag_count, c).board = board
               /\ TwoRightClicks(board, flag_count, c).flag_count = flag_count)
    /\ [][\A c \in Cells :
            (on_right_click(c) /\ ~board[c].is_revealed) =>
               /\ board' = [board EXCEPT ![c].is_flagged = ~board[c].is_flagged]
               /\ flag_count' = flag_count
                                   + (IF board[c].is_flagged THEN 0 - 1 ELSE 1)
               /\ UNCHANGED <<clicked_count, start_time>>]_vars

\* a flag was taken off again in a game with revealed cells while another
\* cell stays flagged: the count is back at one
C11_Witness ==
    /\ last_op = Op("on_right_click", "unflagged")
    /\ flag_count = 1
    /\ Cardinality({c \in Cells : board[c].is_flagged}) = 1
    /\ clicked_count > 0

\* C12: on_right_click on a revealed cell changes nothing: the cell is not
\* flagged before or after, and no cell, counter, start_time or game-over
\* signal changes.
C12_RightClickRevealedNoOp ==
    [][\A c \in Cells :
          (on_right_click(c) /\ board[c].is_revealed) =>
             /\ ~board[c].is_flagged /\ ~board'[c].is_flagged
             /\ UNCHANGED <<board, flag_count, clicked_count, start_time,
                            game_over_calls, pending, pc, modelVars>>]_vars

\* an on_right_click returned at line 244: its cell was revealed
C12_Witness ==
    /\ last_op = Op("on_right_click", "rejected")
    /\ \E c \in Cells : board[c].is_revealed
    /\ flag_count = 0


\* row x or column y is not on the board
OutsideBoard(x, y) == ~(x \in Rows /\ y \in Cols)

\* C13: an on_click or on_right_click request whose row or column is outside
\* the board, negative numbers included, changes no cell's is_revealed or
\* is_flagged, no counter and not start_time.
C13_InvalidCoordinates ==
    [][\A x \in AnyRows, y \in AnyCols :
          (OutsideBoard(x, y)
             /\ (GameController_on_click(x, y)
                   \/ GameController_on_right_click(x, y)))
          => UNCHANGED <<board, clicked_count, flag_count, start_time>>]_vars


\* GameModel.__init__ has returned a board
Constructed == pc = "constructed"

MineCells == {c \in Cells : board[c].is_mine}
TreasureCells == {c \in Cells : board[c].has_treasure}

\* C14: random-mode construction returns no board when
\* num_mines + num_treasures >= size_x * size_y, and never a board with fewer
\* than num_treasures treasures.
C14_RandomConfigurationError ==
    (Constructed /\ ~is_test_mode)
    => /\ num_mines + num_treasures < SizeX * SizeY
       /\ Cardinality(TreasureCells) >= num_treasures

\* C15: every board random-mode construction returns has exactly num_mines
\* mines (and mines = num_mines) and exactly num_treasures treasures (and as
\* many treasure_cells), on distinct cells.
C15_RandomPlacementCounts ==
    (Constructed /\ ~is_test_mode)
    => /\ Cardinality(MineCells) = num_mines
       /\ mines = num_mines
       /\ Cardinality(TreasureCells) = num_treasures
       /\ treasure_cells = TreasureCells
       /\ MineCells \cap TreasureCells = {}

\* C16: construction from a list of rows of exactly the board's dimensions
\* returns a board on which cell (x, y) is a mine iff the value is 1 and a
\* treasure iff it is 2, with mines the number of 1s and num_treasures the
\* number of 2s, whatever num_treasures was requested.
C16_FixedPlacement ==
    [][(pc = "new" /\ is_test_mode /\ ExactDims(test_board) /\ pc' # "new")
        => /\ pc' = "constructed"
           /\ \A c \in Cells :
                 /\ board'[c].is_mine = (test_board[c[1] + 1][c[2] + 1] = 1)
                 /\ board'[c].has_treasure = (test_board[c[1] + 1][c[2] + 1] = 2)
           /\ mines' = Cardinality({c \in Cells : test_board[c[1] + 1][c[2] + 1] = 1})
           /\ num_treasures'
                 = Cardinality({c \in Cells : test_board[c[1] + 1][c[2] + 1] = 2})
           /\ treasure_cells'
                 = {c \in Cells : test_board[c[1] + 1][c[2] + 1] = 2}]_vars

\* a board was built from a list of rows of the board's dimensions with a mine
\* and a treasure, and the requested num_treasures was replaced
C16_Witness ==
    /\ Constructed /\ is_test_mode /\ ExactDims(test_board)
    /\ last_op = Op("GameModel", "num_treasures overridden")
    /\ MineCells # {} /\ TreasureCells # {}
    /\ num_treasures = Cardinality(TreasureCells)

\* C17: construction from a list of rows whose dimensions differ from the
\* board's (fewer or more rows or columns, or no rows) returns no board: it
\* raises.
C17_FixedDimensionMismatch ==
    [][(pc = "new" /\ is_test_mode /\ ~ExactDims(test_board) /\ pc' # "new")
        => pc' \in {"IndexError", "ValueError"}]_vars


\* C18: a restart_game step leaves every cell unrevealed and unflagged,
\* clicked_count = 0, flag_count = 0 and start_time None; from a test board
\* the mines and treasures are on exactly the same cells as before, from
\* random parameters there are as many mines and as many treasures as before.
C18_Restart ==
    [][(last_op'.op = "restart_game" /\ restart_game)
        => /\ \A c \in Cells : ~board'[c].is_revealed /\ ~board'[c].is_flagged
           /\ clicked_count' = 0 /\ flag_count' = 0 /\ start_time' = None
           /\ is_test_mode => MineCells' = MineCells
                                /\ TreasureCells' = TreasureCells
           /\ ~is_test_mode
                => /\ Cardinality(MineCells') = Cardinality(MineCells)
                   /\ Cardinality(TreasureCells') = Cardinality(TreasureCells)]_vars

\* a game built from a test board was restarted
C18_Witness ==
    /\ last_op = Op("restart_game", "")
    /\ is_test_mode
    /\ MineCells # {} /\ TreasureCells # {}
    /\ \A c \in Cells : ~board[c].is_revealed


\* the file exists and is read to its end
Readable(f) == f.exists /\ f.error = ""

\* the rows are 8 rows of 8 values each
ShapeOk(rows) ==
    /\ Len(rows) = BoardSide
    /\ \A i \in 1..Len(rows) : Len(rows[i]) = BoardSide

\* every value of the rows is "0", "1" or "2"
ValuesOk(rows) ==
    \A i \in 1..Len(rows) : \A j \in 1..Len(rows[i]) :
        rows[i][j] \in {"0", "1", "2"}

\* the file is an 8-row by 8-column matrix over 0, 1, 2
IsMatrix(f) == Readable(f) /\ ShapeOk(f.rows) /\ ValuesOk(f.rows)

\* the positions of the value t in rows of the right shape
Positions(rows, t) == {q \in Squares : rows[q[1]][q[2]] = t}

\* the positions a and b share an edge
EdgeSharing(a, b) ==
    \/ a[1] = b[1] /\ a[2] - b[2] \in {0 - 1, 1}
    \/ a[2] = b[2] /\ a[1] - b[1] \in {0 - 1, 1}

\* the number of unordered pairs of edge-sharing mines (every such pair is two
\* ordered pairs)
EdgeSharingMinePairs(rows) ==
    LET M == Positions(rows, "1")
        ordered == {p \in M \X M : EdgeSharing(p[1], p[2])}
    IN CHOOSE k \in 0..Cardinality(ordered) : 2 * k = Cardinality(ordered)

RowsCovered(rows) ==
    \A i \in 1..BoardSide : \E q \in Positions(rows, "1") : q[1] = i
ColumnsCovered(rows) ==
    \A j \in 1..BoardSide : \E q \in Positions(rows, "1") : q[2] = j
OneDiagonalMine(rows) ==
    Cardinality({q \in Positions(rows, "1") : q[1] = q[2]}) = 1
TreasuresOk(rows) ==
    Cardinality(Positions(rows, "2")) \in 1..TreasureLimit

\* the conditions under which the validator is to accept an 8 x 8 matrix
Accepts(rows) ==
    /\ Cardinality(Positions(rows, "1")) = RequiredMines
    /\ RowsCovered(rows) /\ ColumnsCovered(rows)
    /\ OneDiagonalMine(rows)
    /\ EdgeSharingMinePairs(rows) = 1
    /\ TreasuresOk(rows)

\* C19: for every 8-row by 8-column matrix over 0, 1, 2 the validator returns
\* valid (with the matrix parsed to integers) if and only if the matrix has
\* exactly 10 mines, a mine in every row and every column, exactly one mine on
\* the main diagonal, exactly one unordered pair of edge-sharing mines, and
\* between 1 and 9 treasures.
C19_ValidatorAcceptance ==
    [][(pc = "new" /\ pc' # "new" /\ IsMatrix(test_board))
        => /\ (pc' = "valid") = Accepts(test_board.rows)
           /\ (pc' = "valid") = (last_op'.path = "Board is valid.")
           /\ pc' = "valid" =>
                 \A q \in Squares :
                    /\ (board'[q[1]][q[2]] = 0)
                          = (test_board.rows[q[1]][q[2]] = "0")
                    /\ (board'[q[1]][q[2]] = 1)
                          = (test_board.rows[q[1]][q[2]] = "1")
                    /\ (board'[q[1]][q[2]] = 2)
                          = (test_board.rows[q[1]][q[2]] = "2")
           /\ pc' # "valid" => board' = NoMatrix]_vars

\* a matrix was accepted whose one pair of edge-sharing mines is a vertical
\* one, and which holds a treasure more than the board it was made from
C19_Witness ==
    /\ pc = "valid"
    /\ last_op = Op("load_and_validate_test_board", "Board is valid.")
    /\ \E i \in 1..(BoardSide - 1), j \in 1..BoardSide :
          board[i][j] = 1 /\ board[i + 1][j] = 1
    /\ treasure_count(board) = 2

\* the first rule, in the order 1 shape, 2 values, 3 mine count, 4 row then
\* column coverage, 5 diagonal, 6 edge-sharing pair, 7 treasures, that the
\* rows of a file violate (0 when they violate none)
FirstViolatedRule(rows) ==
    IF ~ShapeOk(rows) THEN 1
    ELSE IF ~ValuesOk(rows) THEN 2
    ELSE IF Cardinality(Positions(rows, "1")) # RequiredMines THEN 3
    ELSE IF ~(RowsCovered(rows) /\ ColumnsCovered(rows)) THEN 4
    ELSE IF ~OneDiagonalMine(rows) THEN 5
    ELSE IF EdgeSharingMinePairs(rows) # 1 THEN 6
    ELSE IF ~TreasuresOk(rows) THEN 7
    ELSE 0

\* the rule a message of the validator reports
ReportedRule(message) ==
    IF message \in {"Each row must have exactly 8 values.",
                    "There must be exactly 8 rows."} THEN 1
    ELSE IF message = "Each cell must be 0, 1, or 2." THEN 2
    ELSE IF \E n \in 0..(BoardSide * BoardSide) : message = mines_message(n)
         THEN 3
    ELSE IF \E i \in 1..BoardSide :
               message \in {row_message(i), column_message(i)} THEN 4
    ELSE IF \E n \in 0..BoardSide : message = diagonal_message(n) THEN 5
    ELSE IF \E n \in 0..(2 * BoardSide * BoardSide) :
               message = pairs_message(n) THEN 6
    ELSE IF message \in {"There must be at least one treasure.",
                         "There must be no more than 9 treasures."} THEN 7
    ELSE 0

\* C20: of a file that it reads the validator reports the first violated
\* rule in the order 1 to 7, rows before columns within rule 4; a file of the
\* wrong shape is reported as such even when it holds a value other than 0,
\* 1, 2.
C20_ValidatorRuleOrder ==
    [][(pc = "new" /\ pc' # "new" /\ Readable(test_board))
        => /\ ReportedRule(last_op'.path) = FirstViolatedRule(test_board.rows)
           /\ (FirstViolatedRule(test_board.rows) = 4
                  /\ ~RowsCovered(test_board.rows))
                 => \E i \in 1..BoardSide :
                       last_op'.path = row_message(i)]_vars


\* the file is the example board with between 1 and 9 treasures
IsFixture(f) ==
    /\ IsMatrix(f)
    /\ Positions(f.rows, "1") = FixtureMines
    /\ Cardinality(Positions(f.rows, "2")) \in 1..TreasureLimit

\* C21: the example board (mines at (0,0),(0,3),(1,5),(1,6),(2,1),(3,4),(4,7),
\* (5,2),(6,6),(7,3), between 1 and 9 treasures on other cells) has exactly
\* one mine on the main diagonal and is accepted by the validator.
C21_FixtureAccepted ==
    [][(pc = "new" /\ pc' # "new" /\ IsFixture(test_board))
        => /\ Cardinality({q \in FixtureMines : q[1] = q[2]}) = 1
           /\ pc' = "valid"]_vars

\* C21 as amended: the example board has two mines on the main diagonal, at
\* (0,0) and (6,6), a mine in every row and column and one edge-sharing pair
\* of mines; with any 1 to 9 treasures the validator rejects it with the
\* message of the diagonal rule, "... Found 2.".
C21_FixtureRejected ==
    /\ [][(pc = "new" /\ pc' # "new" /\ IsFixture(test_board))
            => /\ pc' = "invalid"
               /\ board' = NoMatrix
               /\ last_op'.path
                    = "There must be exactly one mine on the main diagonal. Found 2."]_vars
    /\ [](/\ {q \in FixtureMines : q[1] = q[2]} = {<<1, 1>>, <<7, 7>>}
          /\ Cardinality(FixtureMines) = RequiredMines
          /\ \A i \in 1..BoardSide : \E q \in FixtureMines : q[1] = i
          /\ \A j \in 1..BoardSide : \E q \in FixtureMines : q[2] = j
          /\ {p \in FixtureMines \X FixtureMines : EdgeSharing(p[1], p[2])}
               = {<< <<2, 6>>, <<2, 7>> >>, << <<2, 7>>, <<2, 6>> >>})

\* the example board with nine treasures was given to the validator and
\* rejected for its diagonal
C21_Witness ==
    /\ pc = "invalid"
    /\ IsFixture(test_board)
    /\ Cardinality(Positions(test_board.rows, "2")) = TreasureLimit
    /\ last_op = Op("load_and_validate_test_board",
                    "There must be exactly one mine on the main diagonal. Found 2.")


\* no cell is twice in the sequence
NoDuplicates(seq) ==
    \A i, j \in 1..Len(seq) : i # j => seq[i] # seq[j]

\* the cells of the sequence
Range(seq) == {seq[i] : i \in 1..Len(seq)}

\* the cells the step reveals
NewlyRevealed == {c \in Cells : BecomesRevealed(c)}

\* C22: a reveal_empty_cells call, once started, returns; while it runs no cell
\* is enqueued twice or dequeued twice, at most size_x * size_y cells are
\* dequeued, every pass of its loop reveals only unrevealed cells, each once
\* (the count grows by the number of cells that become revealed), hides none,
\* and enqueues only cells it has just revealed.
C22_FloodFillTermination ==
    /\ [](/\ NoDuplicates(fill.enqueued)
          /\ NoDuplicates(fill.dequeued)
          /\ Len(fill.dequeued) <= SizeX * SizeY
          /\ Len(fill.enqueued) <= SizeX * SizeY
          /\ \A c \in Range(fill.enqueued) : board[c].is_revealed)
    /\ [][reveal_empty_cells_loop
            => /\ \A c \in Cells : board[c].is_revealed => board'[c].is_revealed
               /\ clicked_count' - clicked_count = Cardinality(NewlyRevealed)
               /\ Range(fill'.enqueued) \ Range(fill.enqueued)
                     \subseteq NewlyRevealed]_vars
    /\ (fill.active ~> ~fill.active)

\* a fill has emptied its queue after dequeuing at least three cells, one of
\* which had a neighbour that was dequeued before it, and has revealed more
\* cells than the first pass can
C22_Witness ==
    /\ fill.active /\ fill.queue = <<>>
    /\ Len(fill.dequeued) >= 3
    /\ \E i \in 1..Len(fill.dequeued) :
          \E k \in 1..Len(neighbors[fill.dequeued[i]]) :
             neighbors[fill.dequeued[i]][k]
                \in Range(SubSeq(fill.dequeued, 1, i - 1))
    /\ \E c \in Cells :
          /\ board[c].is_revealed
          /\ ~KingAdjacent(c, fill.dequeued[1]) /\ c # fill.dequeued[1]

\* on_click(c) runs the flood fill: c is unrevealed, unflagged, no mine, no
\* treasure and has no adjacent mine
ClicksZero(c) == IsSafe(c) /\ board[c].adjacent_mines = 0 /\ Clicks(c)

\* the cell the fill started from and the zero-adjacency cells the fill
\* reveals (the safe ones among the cells the step reveals: TextView.game_over
\* reveals mines and treasures)
FilledFrom(c) ==
    {c} \cup {d \in NewlyRevealed : IsSafe(d) /\ board[d].adjacent_mines = 0}

\* C23: after an on_click on an unrevealed, unflagged, safe cell with no
\* adjacent mine, every neighbour of the clicked cell and of every
\* zero-adjacency cell revealed by the call is revealed, unless it is a mine,
\* flagged, a treasure or adjacent to a treasure; clicked_count has grown by
\* the number of safe cells that became revealed, and when the call returns
\* (it does unless TextView.game_over has taken over, pc' = "prompt") these
\* are all the cells that became revealed.
C23_FloodFillCompleteness ==
    [][\A c \in Cells :
          ClicksZero(c)
          => /\ \A z \in FilledFrom(c) : \A n \in Cells :
                   KingAdjacent(z, n)
                   => \/ board'[n].is_revealed
                      \/ board[n].is_mine \/ board[n].is_flagged
                      \/ NearTreasure(n)
             /\ clicked_count' - clicked_count
                   = Cardinality({d \in NewlyRevealed : IsSafe(d)})
             /\ pc' # "prompt" => \A d \in NewlyRevealed : IsSafe(d)]_vars

\* a fill has gone round a flagged cell and revealed every other cell of a
\* board without mines, cells that are no neighbours of the clicked cell
\* included
C23_Witness ==
    /\ last_op = Op("on_click", "flood")
    /\ mines = 0
    /\ \E f \in Cells :
          /\ board[f].is_flagged /\ ~board[f].is_revealed
          /\ \A d \in Cells \ {f} : board[d].is_revealed
    /\ clicked_count = SizeX * SizeY - 1
    /\ game_over_calls = <<>>

\* C24: on_click on an unrevealed, unflagged cell that is no mine and no
\* treasure and has adjacent_mines > 0 reveals that cell, adds 1 to
\* clicked_count and changes nothing else on the board.
C24_NumberedCellsNeverCascade ==
    [][\A c \in Cells :
          (IsSafe(c) /\ board[c].adjacent_mines > 0 /\ Clicks(c))
          => /\ board' = [board EXCEPT ![c].is_revealed = TRUE]
             /\ clicked_count' = clicked_count + 1
             /\ UNCHANGED flag_count]_vars

\* the step is an on_click on a safe cell that calls view.game_over: the call
\* is made by the count test of lines 228-230 or 283-285
WinByCountSignalled(c) ==
    /\ IsSafe(c)
    /\ game_over_calls' # game_over_calls
    /\ Clicks(c)

\* C25: whenever clicked_count equals size_x * size_y - mines - num_treasures
\* every cell that is no mine and no treasure is revealed; and a step in
\* which the count test signals a win leaves every such cell revealed and no
\* mine revealed.
C25_WinCountMeaning ==
    /\ [](clicked_count = total_safe_cells => AllSafeRevealed)
    /\ [][\A c \in Cells :
            WinByCountSignalled(c)
            => /\ AllSafeRevealed'
               /\ \A d \in Cells :
                     ~(board[d].is_mine /\ board'[d].is_revealed)]_vars

FlaggedCells == {c \in Cells : board[c].is_flagged}

\* C26: flag_count is the number of flagged cells (so it is between 0 and the
\* number of cells), and on_right_click on an unrevealed, unflagged cell sets
\* the flag and counts it whatever the number of mines is.
C26_FlagCounterConsistency ==
    /\ [](/\ flag_count = Cardinality(FlaggedCells)
          /\ flag_count >= 0 /\ flag_count <= SizeX * SizeY)
    /\ [][\A c \in Cells :
            (on_right_click(c) /\ ~board[c].is_revealed /\ ~board[c].is_flagged)
            => /\ board'[c].is_flagged
               /\ flag_count' = flag_count + 1]_vars

\* after a click, a second flag is set on a board with one mine: there are
\* more flags than mines, one of them on a cell that is no mine
C26_Witness ==
    /\ last_op = Op("on_right_click", "flagged")
    /\ mines = 1 /\ flag_count = 2
    /\ \E c \in FlaggedCells : ~board[c].is_mine
    /\ clicked_count > 0

\* C27: no cell is both revealed and flagged, in any state of a game, the
\* states left by the views' game-over handling included.
C27_RevealedFlaggedExclusive ==
    \A c \in Cells : ~(board[c].is_revealed /\ board[c].is_flagged)

\* C28: a GameModel's view receives at most one game-over notification, and
\* no single on_click call makes more than one view.game_over call.
C28_GameOverOnce ==
    /\ [](\A i \in 1..Len(stack) : Len(stack[i].made) <= 1)
    /\ [](Len(game_over_calls) <= 1)

====
